---- MODULE Spec2Model ----
(***************************************************************************)
(* Videoteka: the download orchestrator (DownloadManager over a thread     *)
(* pool), the queue store (DownloadQueue / DownloadItem), the settings in  *)
(* force and the main window's handlers that reconcile lifecycle events    *)
(* with the queue.  Worker threads emit Qt signals; the main thread        *)
(* receives them through queued connections, modelled by the FIFO `events`.*)
(***************************************************************************)
EXTENDS Integers, Sequences, FiniteSets, TLC

VARIABLES
    items,            \* DownloadQueue.items: sequence of DownloadItem records
    next_id,          \* identity of the next DownloadItem object created
    queue_file,       \* queue.json: whether it exists, and the saved list
    config_file,      \* config.json: whether it exists, and the saved dict
    history,          \* downloads table of the history database
    settings,         \* MainWindow.settings (the Settings object in force)
    max_workers,      \* DownloadManager.max_workers attribute
    pool_size,        \* max_workers the ThreadPoolExecutor was built with
    running,          \* DownloadManager.running
    pending,          \* executor work queue: submitted tasks not yet begun
    workers,          \* executor threads: the task each one executes
    active_downloads, \* DownloadManager.active_downloads (its keys)
    events,           \* signals emitted by workers, not yet handled
    pause_all_button, \* enabled state of the "Pause All" button
    fetching,         \* URLs handed to the VideoInfoWorker (dialog open)
    closed,           \* the window has been closed (event loop ended)
    submitted,        \* number of tasks submitted so far (bounded)
    progressed,       \* number of progress callbacks so far (bounded)
    hooks,            \* the YouTubeProgressHook of each executing task:
                      \* its downloaded_bytes and total_bytes
    stop_note,        \* history variable: whether stop_all() was called and
                      \* no dispatch accepted since, and the ids of the
                      \* items that were queued at that call
    crash_note        \* history variable: where the process died, if it
                      \* did, and the URL whose signal was being handled

vars == <<items, next_id, queue_file, config_file, history, settings,
          max_workers, pool_size, running, pending, workers,
          active_downloads, events, pause_all_button, fetching, closed,
          submitted, progressed, hooks, stop_note,
          crash_note>>

----------------------------------------------------------------------------
(* Bounds of the model *)

MaxItems == 2       \* DownloadItem objects created per session
MaxTasks == 2       \* tasks submitted to the pool, over all sessions
MaxProgress == 1    \* progress callbacks delivered, over all sessions
MaxStream == 2      \* progress callbacks of one observed transfer

(* Program constants *)

DefaultMaxConcurrent == 3   \* Settings.max_concurrent_downloads default
SpinMin == 1                \* max_concurrent_spin.setMinimum
SpinMax == 10               \* max_concurrent_spin.setMaximum

(* Inputs *)

Urls == {"youtu.be/a", "youtu.be/b"}
InvalidLine == "example.com/x"
Lines == Urls \cup {InvalidLine}
Batches == {<<x>> : x \in Lines} \cup {<<x, y>> : x \in Lines, y \in Urls}
FileLimits == {1}           \* max_concurrent_downloads found in config.json


\* executor threads that can exist under any pool size the model builds
Slots == {s \in SpinMin..SpinMax :
            s <= DefaultMaxConcurrent \/ \E k \in FileLimits : s <= k}

----------------------------------------------------------------------------
(* Sequence helpers *)

SeqMap(Op(_), s) == [i \in 1..Len(s) |-> Op(s[i])]

Range(s) == {s[i] : i \in 1..Len(s)}

RECURSIVE CountIn(_, _)
CountIn(x, s) == IF s = <<>> THEN 0
                 ELSE (IF Head(s) = x THEN 1 ELSE 0) + CountIn(x, Tail(s))

----------------------------------------------------------------------------
(* models/settings.py: DownloadItem *)

DefaultSpeed == "0.0 MB/s"

DownloadItem(id, url, title) ==
    [id |-> id, url |-> url, title |-> title, status |-> "queued",
     progress |-> 0, speed |-> DefaultSpeed, eta |-> "", file_size |-> "",
     output_path |-> ""]

\* DownloadItem.to_dict: the dataclass fields (object identity is not one)
to_dict(item) ==
    [url |-> item.url, title |-> item.title, status |-> item.status,
     progress |-> item.progress, speed |-> item.speed, eta |-> item.eta,
     file_size |-> item.file_size, output_path |-> item.output_path]

\* DownloadItem.from_dict: a new object holding the dict's fields
from_dict(id, d) ==
    [id |-> id, url |-> d.url, title |-> d.title, status |-> d.status,
     progress |-> d.progress, speed |-> d.speed, eta |-> d.eta,
     file_size |-> d.file_size, output_path |-> d.output_path]

----------------------------------------------------------------------------
(* models/download_queue.py: DownloadQueue *)

\* get_item: index of the first item with that URL, 0 for None
get_item(its, url) ==
    IF \E i \in 1..Len(its) : its[i].url = url
    THEN CHOOSE i \in 1..Len(its) :
            /\ its[i].url = url
            /\ \A j \in 1..(i - 1) : its[j].url # url
    ELSE 0

IsQueued(item) == item.status = "queued"
NotCompleted(item) == item.status # "completed"

get_queued_items(its) == SelectSeq(its, IsQueued)

clear_completed(its) == SelectSeq(its, NotCompleted)

remove(its, url) == LET Keep(item) == item.url # url IN SelectSeq(its, Keep)

\* the value remove returns, line 54: whether the list left is empty
remove_returns(its, url) == Len(remove(its, url)) = 0

\* fault variant: a save that writes every item
save_all(its) == SeqMap(to_dict, its)

\* save: the list written to queue.json (completed items filtered out)
save(its) == SeqMap(to_dict, SelectSeq(its, NotCompleted))

\* fault variant: a load that resets downloading only
LoadStatusKeepsPaused(st) == IF st = "downloading" THEN "queued" ELSE st

LoadStatus(st) == IF st \in {"downloading", "paused"} THEN "queued" ELSE st

\* load: the items built from queue.json; an absent file leaves the queue
\* empty, and so does a file that is not a JSON document (json.load raises
\* JSONDecodeError, lines 107-110)
load(file) ==
    IF ~file.exists THEN <<>>
    ELSE IF ~file.whole THEN <<>>
    ELSE [i \in 1..Len(file.data) |->
            [from_dict(i, file.data[i]) EXCEPT !.status = LoadStatus(@)]]

\* queue.json: absent, or the document a save() wrote in full, or what is
\* left of the file when a save() did not reach its end: open(..., 'w') has
\* emptied it and json.dump has written none or a part of the text
AbsentFile == [exists |-> FALSE, whole |-> TRUE, data |-> <<>>]
WrittenFile(data) == [exists |-> TRUE, whole |-> TRUE, data |-> data]
TornFile == [exists |-> TRUE, whole |-> FALSE, data |-> <<>>]

----------------------------------------------------------------------------
(* models/settings.py: Settings *)

DefaultSettings ==
    [video_quality |-> "best", preferred_format |-> "mp4",
     audio_quality |-> "best", download_subtitles |-> TRUE,
     subtitles_language |-> "en",
     max_concurrent_downloads |-> DefaultMaxConcurrent,
     download_folder |-> ""]

SettingsFields == DOMAIN DefaultSettings

AbsentConfig == [exists |-> FALSE, data |-> DefaultSettings]

\* fault variant of from_file: a file that lacks a field is rejected whole
from_file_all_or_nothing(cfg) ==
    IF cfg.exists /\ DOMAIN cfg.data = DOMAIN DefaultSettings
    THEN cfg.data ELSE DefaultSettings

\* Settings.from_file: cls(**data) takes the fields of the file's dict and
\* the dataclass defaults for the others; a dict with a key that is no field
\* raises TypeError, which is swallowed, and the defaults are returned
from_file(cfg) ==
    IF cfg.exists /\ DOMAIN cfg.data \subseteq SettingsFields
    THEN [f \in SettingsFields |->
             IF f \in DOMAIN cfg.data THEN cfg.data[f] ELSE DefaultSettings[f]]
    ELSE DefaultSettings

----------------------------------------------------------------------------
(* downloader/download_manager.py: DownloadManager *)

Idle == [url |-> "", pc |-> "idle"]

NoInfo == [progress |-> 0, speed |-> 0, eta |-> 0, total_bytes |-> 0]

----------------
(* downloader/youtube_handler.py: YouTubeProgressHook *)

\* a key the dict of a callback lacks, or holds with the value None
Missing == -1

\* d.get(key, default)
Get(v, default) == IF v = Missing THEN default ELSE v

\* YouTubeProgressHook.__init__, lines 17-18
NewHook == [downloaded_bytes |-> 0, total_bytes |-> 0]

\* line 29: d.get('total_bytes') or d.get('total_bytes_estimate', 0)
EffectiveTotal(d) ==
    IF d.total_bytes \notin {Missing, 0} THEN d.total_bytes
    ELSE Get(d.total_bytes_estimate, 0)

\* fault variant of the percentage: the fraction is not scaled to percent
Fraction(downloaded, total) ==
    IF total > 0 THEN downloaded \div total ELSE 0

\* lines 32-34: (downloaded / total) * 100 for total > 0, else 0.0; the
\* byte counts of the callbacks are such that the quotient is a whole number
Percent(downloaded, total) ==
    IF total > 0 THEN (downloaded * 100) \div total ELSE 0

\* the fields of the emitted dict that the main window reads (lines 46-53)
HookInfo(d) ==
    [progress |-> Percent(Get(d.downloaded_bytes, 0), EffectiveTotal(d)),
     speed |-> Get(d.speed, 0),
     eta |-> Get(d.eta, 0),
     total_bytes |-> EffectiveTotal(d)]

\* lines 22-29: the counters of the hook after progress_hook(d)
HookCounters(h, d) ==
    IF d.status # "downloading" THEN h
    ELSE [downloaded_bytes |-> Get(d.downloaded_bytes, 0),
          total_bytes |-> EffectiveTotal(d)]

\* a callback of a transfer half done
SessionCallbacks ==
    {[status |-> "downloading", downloaded_bytes |-> 1048576,
      total_bytes |-> 2097152, total_bytes_estimate |-> Missing,
      speed |-> 1048576, eta |-> 65]}

\* the progress_info dicts a transfer delivers through the hook
ProgressInfos == {HookInfo(d) : d \in SessionCallbacks}

Event(type, url, info, result) ==
    [type |-> type, url |-> url, info |-> info, result |-> result]

PathOf(url) == "/videos/" \o url \o ".mp4"
ErrorText == "ERROR: unable to download"

\* fault variant of the guard: every call is accepted
AlwaysAccepted(flag) == TRUE

\* download_multiple, line 27: the non-reentrancy guard
DispatchAccepted(flag) == ~flag

\* fault variant of the submission loop: submit() after the loop, so only
\* the last queued item gets a task
TasksForLast(input) ==
    LET q == SelectSeq(input, LAMBDA it : it.status = "queued")
    IN IF q = <<>> THEN <<>> ELSE <<q[Len(q)].url>>

\* download_multiple, lines 32-36: one task per queued item, in list order
ItemUrl(item) == item.url
TasksFor(input) == SeqMap(ItemUrl, SelectSeq(input, IsQueued))

\* the tasks a call download_multiple(input, config) submits
Submitted(flag, input) ==
    IF DispatchAccepted(flag) THEN TasksFor(input) ELSE <<>>

\* download_multiple(items, config) as called by the main window
download_multiple(input) ==
    /\ submitted + Len(Submitted(running, input)) <= MaxTasks
    /\ running' = (IF DispatchAccepted(running) THEN TRUE ELSE running)
    /\ pending' = pending \o Submitted(running, input)
    /\ submitted' = submitted + Len(Submitted(running, input))

\* stop_all, line 80
stop_all == running' = FALSE

\* the executor hands the oldest submitted task to a free thread
NextTask(q) == 1

\* fault variant: an executor that starts a thread for every waiting task
FreeSlotsUnbounded == {s \in Slots : workers[s] = Idle}

FreeSlots == {s \in Slots : s <= pool_size /\ workers[s] = Idle}
Busy == {s \in Slots : workers[s] # Idle}

\* a signal emitted by a worker is queued for the main thread; once the
\* window is closed no event loop receives it
Emit(sigs) == IF closed THEN events ELSE events \o sigs

\* a pool thread takes the task off the work queue and runs
\* _download_single up to the call of download_video (lines 41-54): the
\* hook is registered and download_started is emitted
Begin ==
    /\ pending # <<>>
    /\ FreeSlots # {}
    /\ LET s == CHOOSE x \in FreeSlots : \A y \in FreeSlots : x <= y
           k == NextTask(pending)
       IN /\ workers' = [workers EXCEPT ![s] =
                            [url |-> pending[k], pc |-> "download"]]
          /\ pending' = [i \in 1..(Len(pending) - 1) |->
                            IF i < k THEN pending[i] ELSE pending[i + 1]]
          /\ active_downloads' = active_downloads \cup {pending[k]}
          /\ events' = Emit(<<Event("started", pending[k], NoInfo, "")>>)
          /\ hooks' = [hooks EXCEPT ![s] = NewHook]
    /\ UNCHANGED <<items, next_id, queue_file, config_file, history, settings,
                   max_workers, pool_size, running, pause_all_button,
                   fetching, closed, submitted, progressed>>

\* fault variant of the tag test of progress_hook: every callback emits
HookSignalsAnyTag(url, d) == <<[type |-> "progress", url |-> url,
                                info |-> HookInfo(d), result |-> ""]>>

\* progress_hook, lines 24-26 and 46-53: the signals of one callback
HookSignals(url, d) ==
    IF d.status = "downloading"
    THEN <<Event("progress", url, HookInfo(d), "")>>
    ELSE <<>>

\* the transfer calls progress_hook(d) on the task's hook, which emits
\* progress_updated; _on_progress re-emits it with the url (lines 66-68)
CallbackWithin(s, d, bound) ==
    /\ workers[s].pc = "download"
    /\ progressed < bound
    /\ progressed' = progressed + 1
    /\ hooks' = [hooks EXCEPT ![s] = HookCounters(@, d)]
    /\ events' = Emit(HookSignals(workers[s].url, d))
    /\ UNCHANGED <<workers, items, next_id, queue_file, config_file, history,
                   settings, max_workers, pool_size, running, pending,
                   active_downloads, pause_all_button, fetching, closed,
                   submitted>>

Callback(s, d) == CallbackWithin(s, d, MaxProgress)

\* a progress callback of a transfer of the session
EmitProgress(s) == \E d \in SessionCallbacks : Callback(s, d)

\* fault variant of the result branch: the else is missing, so a success
\* emits download_failed after download_completed
TerminalEventsBoth(url, success) ==
    IF success
    THEN <<Event("completed", url, NoInfo, PathOf(url)),
           Event("failed", url, NoInfo, ErrorText)>>
    ELSE <<Event("failed", url, NoInfo, ErrorText)>>

\* _download_single, lines 57-60: the signals emitted when download_video
\* returns (success, result)
TerminalEvents(url, success) ==
    IF success THEN <<Event("completed", url, NoInfo, PathOf(url))>>
    ELSE <<Event("failed", url, NoInfo, ErrorText)>>

\* download_video returns; _download_single emits the terminal signal and
\* drops the hook (lines 55-64); the thread becomes free
Finish(s) ==
    /\ workers[s].pc = "download"
    /\ \E success \in BOOLEAN :
          events' = Emit(TerminalEvents(workers[s].url, success))
    /\ active_downloads' = active_downloads \ {workers[s].url}
    /\ workers' = [workers EXCEPT ![s] = Idle]
    /\ hooks' = [hooks EXCEPT ![s] = NewHook]
    /\ UNCHANGED <<items, next_id, queue_file, config_file, history, settings,
                   max_workers, pool_size, running, pending,
                   pause_all_button, fetching, closed, submitted, progressed>>

----------------
(* ui/main_window.py: MainWindow *)

NoBatch == <<>>

\* user actions need an open main window that no modal dialog blocks
UserCan == ~closed /\ fetching = NoBatch

\* is_valid_youtube_url: one of the patterns occurs in the line
is_valid_youtube_url(line) == line \in Urls

\* VideoInfoWorker.fetch_all_info: the fetched title, or the placeholder
\* when get_video_info returns None (here: extraction of one URL fails)
TitleOf(url) == IF url = "youtu.be/a" THEN "Video a" ELSE "Unknown Video"

DefaultQuality == "best"

Fmt2(n) == IF n < 10 THEN "0" \o ToString(n) ELSE ToString(n)

\* f"{bytes / (1024 * 1024):.2f}"
FormatMB(bytes) ==
    LET h == (bytes * 200 + 1048576) \div 2097152
    IN ToString(h \div 100) \o "." \o Fmt2(h % 100)

\* f"{minutes:02d}:{seconds:02d}"
FormatEta(sec) == Fmt2(sec \div 60) \o ":" \o Fmt2(sec % 60)

\* add_urls, lines 385-394
ValidUrls(lines) == SelectSeq(lines, is_valid_youtube_url)

\* add_urls, line 407: URLs already in the queue are filtered out
UrlsToAdd(lines, its) ==
    LET New(url) == get_item(its, url) = 0 IN SelectSeq(ValidUrls(lines), New)

\* add_urls: start the VideoInfoWorker behind a modal progress dialog
AddUrls(lines) ==
    /\ UserCan
    /\ next_id + Len(UrlsToAdd(lines, items)) - 1 <= MaxItems
    /\ fetching' = UrlsToAdd(lines, items)
    /\ UNCHANGED <<items, next_id, queue_file, config_file, history, settings,
                   max_workers, pool_size, running, pending, workers,
                   active_downloads, events, pause_all_button, closed,
                   submitted, progressed,
                   hooks>>

\* on_video_info_fetched, lines 476-482: one new item per fetched result
NewItems(urls, first_id) ==
    [i \in 1..Len(urls) |-> DownloadItem(first_id + i - 1, urls[i], TitleOf(urls[i]))]

OnVideoInfoFetched(canceled) ==
    /\ ~closed
    /\ fetching # NoBatch
    /\ fetching' = NoBatch
    /\ IF canceled
       THEN UNCHANGED <<items, next_id, queue_file>>
       ELSE /\ items' = items \o NewItems(fetching, next_id)
            /\ next_id' = next_id + Len(fetching)
            /\ queue_file' = WrittenFile(save(items'))
    /\ UNCHANGED <<config_file, history, settings, max_workers, pool_size,
                   running, pending, workers, active_downloads, events,
                   pause_all_button, closed, submitted, progressed,
                   hooks>>

BrowseFolder ==
    /\ UserCan
    /\ settings' = [settings EXCEPT !.download_folder = "/videos"]
    /\ UNCHANGED <<items, next_id, queue_file, config_file, history,
                   max_workers, pool_size, running, pending, workers,
                   active_downloads, events, pause_all_button, fetching,
                   closed, submitted, progressed,
                   hooks>>

StartDownloads ==
    /\ UserCan
    /\ IF settings.download_folder = "" \/ get_queued_items(items) = <<>>
       THEN UNCHANGED <<running, pending, submitted, pause_all_button>>
       ELSE /\ download_multiple(get_queued_items(items))
            /\ pause_all_button' = TRUE
    /\ UNCHANGED <<items, next_id, queue_file, config_file, history, settings,
                   max_workers, pool_size, workers, active_downloads, events,
                   fetching, closed, progressed,
                   hooks>>

\* fault variant of the loop of pause_all: queued items are paused too
PauseStatusAll(st) ==
    IF st \in {"downloading", "queued"} THEN "paused" ELSE st

\* pause_all, lines 539-541
PauseStatus(st) == IF st = "downloading" THEN "paused" ELSE st

PauseAll ==
    /\ UserCan
    /\ pause_all_button
    /\ items' = [i \in 1..Len(items) |->
                    [items[i] EXCEPT !.status = PauseStatus(@)]]
    /\ stop_all
    /\ pause_all_button' = FALSE
    /\ UNCHANGED <<next_id, queue_file, config_file, history, settings,
                   max_workers, pool_size, pending, workers, active_downloads,
                   events, fetching, closed, submitted, progressed,
                   hooks>>

ClearCompleted ==
    /\ UserCan
    /\ items' = clear_completed(items)
    /\ queue_file' = WrittenFile(save(items'))
    /\ UNCHANGED <<next_id, config_file, history, settings, max_workers,
                   pool_size, running, pending, workers, active_downloads,
                   events, pause_all_button, fetching, closed, submitted, progressed,
                   hooks>>

\* remove_download through an item's Remove button; `yes` answers the
\* confirmation asked for a downloading or paused item
RemoveDownload(url, yes) ==
    /\ UserCan
    /\ get_item(items, url) # 0
    /\ IF items[get_item(items, url)].status \in {"downloading", "paused"} /\ ~yes
       THEN UNCHANGED <<items, queue_file>>
       ELSE /\ items' = remove(items, url)
            /\ queue_file' = WrittenFile(save(items'))
    /\ UNCHANGED <<next_id, config_file, history, settings, max_workers,
                   pool_size, running, pending, workers, active_downloads,
                   events, pause_all_button, fetching, closed, submitted, progressed,
                   hooks>>

\* ui/download_item_widget.py: toggle_pause, lines 175-178
ToggleStatus(st) ==
    IF st = "downloading" THEN "paused"
    ELSE IF st = "paused" THEN "queued" ELSE st

\* the Pause/Resume button of item i (shown for downloading and paused)
TogglePause(i) ==
    /\ UserCan
    /\ i \in 1..Len(items)
    /\ items[i].status \in {"downloading", "paused"}
    /\ items' = [items EXCEPT ![i].status = ToggleStatus(@)]
    /\ UNCHANGED <<next_id, queue_file, config_file, history, settings,
                   max_workers, pool_size, running, pending, workers,
                   active_downloads, events, pause_all_button, fetching,
                   closed, submitted, progressed,
                   hooks>>

\* fault variant of the reset of retry_download: file_size keeps the error
\* text
RetryResetKeepsSize(item) ==
    [item EXCEPT !.status = "queued", !.progress = 0, !.speed = DefaultSpeed,
                 !.eta = "", !.output_path = ""]

\* retry_download, lines 695-700
RetryReset(item) ==
    [item EXCEPT !.status = "queued", !.progress = 0, !.speed = DefaultSpeed,
                 !.eta = "", !.file_size = "", !.output_path = ""]

\* retry_download(url) through the Retry button of an error item with that
\* URL; it acts on get_item(url)
RetryDownload(url) ==
    /\ UserCan
    /\ \E i \in 1..Len(items) : items[i].url = url /\ items[i].status = "error"
    /\ LET i == get_item(items, url) IN
       IF items[i].status = "error"
       THEN /\ items' = [items EXCEPT ![i] = RetryReset(@)]
            /\ download_multiple(<<items'[i]>>)
            /\ queue_file' = WrittenFile(save(items'))
       ELSE UNCHANGED <<items, queue_file, running, pending, submitted, progressed>>
    /\ UNCHANGED <<next_id, config_file, history, settings, max_workers,
                   pool_size, workers, active_downloads, events,
                   pause_all_button, fetching, closed, progressed,
                   hooks>>

\* the process is gone: its threads, its executor queue, the signals not yet
\* delivered; the files stay as they are on disk
ProcessDies ==
    /\ closed' = TRUE
    /\ running' = FALSE
    /\ pending' = <<>>
    /\ workers' = [s \in Slots |-> Idle]
    /\ hooks' = [s \in Slots |-> NewHook]
    /\ active_downloads' = {}
    /\ events' = <<>>
    /\ fetching' = NoBatch
    /\ UNCHANGED <<next_id, config_file, settings, max_workers, pool_size,
                   pause_all_button, submitted, progressed, stop_note>>

\* fault variant: a dialog that opens and is accepted with the spin box at
\* its minimum, the settings being saved and handed on (lines 716-719)
ShowSettingsAccepted ==
    /\ UserCan
    /\ settings' = [settings EXCEPT !.max_concurrent_downloads = SpinMin]
    /\ config_file' = [exists |-> TRUE, data |-> settings']
    /\ max_workers' = SpinMin
    /\ UNCHANGED <<items, next_id, queue_file, history, pool_size, running,
                   pending, workers, active_downloads, events,
                   pause_all_button, fetching, closed, submitted, progressed,
                   hooks>>

\* show_settings: SettingsDialog(self.settings, self) runs init_ui, which
\* reads self.settings.cookies_file_path (settings_dialog.py:180); Settings
\* (settings.py:38-47) has no such field, so the constructor raises
\* AttributeError before dialog.exec(). The exception leaves the slot
\* unhandled (main.py installs no excepthook) and PyQt6 ends the process;
\* lines 716-720 are never reached and config.json is not written
ShowSettings ==
    /\ UserCan
    /\ ProcessDies
    /\ UNCHANGED <<items, queue_file, history>>

----------------------------------------------------------------------------
(* the main thread handles the signals in the order they were emitted *)

Handling(type) == ~closed /\ events # <<>> /\ Head(events).type = type

OnDownloadStarted ==
    /\ Handling("started")
    /\ LET i == get_item(items, Head(events).url) IN
       items' = IF i = 0 THEN items
                ELSE [items EXCEPT ![i].status = "downloading"]
    /\ events' = Tail(events)
    /\ UNCHANGED <<next_id, queue_file, config_file, history, settings,
                   max_workers, pool_size, running, pending, workers,
                   active_downloads, pause_all_button, fetching, closed,
                   submitted, progressed,
                   hooks>>

\* on_progress_updated followed by the widget's update_progress
ProgressUpdate(item, info) ==
    [item EXCEPT
        !.progress = info.progress,
        !.speed = IF info.speed > 0 THEN FormatMB(info.speed) \o " MB/s"
                  ELSE DefaultSpeed,
        !.eta = IF info.eta > 0 THEN FormatEta(info.eta) ELSE @,
        !.file_size = IF info.total_bytes > 0
                      THEN FormatMB(info.total_bytes) \o " MB" ELSE @]

OnProgressUpdated ==
    /\ Handling("progress")
    /\ LET i == get_item(items, Head(events).url) IN
       items' = IF i = 0 THEN items
                ELSE [items EXCEPT ![i] = ProgressUpdate(@, Head(events).info)]
    /\ events' = Tail(events)
    /\ UNCHANGED <<next_id, queue_file, config_file, history, settings,
                   max_workers, pool_size, running, pending, workers,
                   active_downloads, pause_all_button, fetching, closed,
                   submitted, progressed,
                   hooks>>

\* history.add_download
HistoryRecord(url, title, path, size, quality, status) ==
    [url |-> url, title |-> title, file_path |-> path, file_size |-> size,
     video_quality |-> quality, status |-> status]

IsActive(item) == item.status \in {"downloading", "queued"}

OnDownloadCompleted ==
    /\ Handling("completed")
    /\ LET e == Head(events)
           i == get_item(items, e.url)
       IN IF i = 0
          THEN UNCHANGED <<items, history, pause_all_button>>
          ELSE /\ items' = [items EXCEPT ![i].status = "completed",
                                         ![i].output_path = e.result,
                                         ![i].progress = 100]
               /\ history' = Append(history,
                     HistoryRecord(e.url, items[i].title, e.result,
                                   items[i].file_size, settings.video_quality,
                                   "completed"))
               /\ pause_all_button' =
                     IF SelectSeq(items', IsActive) = <<>> THEN FALSE
                     ELSE pause_all_button
    /\ events' = Tail(events)
    /\ UNCHANGED <<next_id, queue_file, config_file, settings, max_workers,
                   pool_size, running, pending, workers, active_downloads,
                   fetching, closed, submitted, progressed,
                   hooks>>

\* fault variant: a handler that marks every item that is not completed
OnDownloadFailedMarksAll ==
    /\ Handling("failed")
    /\ items' = [i \in DOMAIN items |->
                    IF items[i].status = "completed" THEN items[i]
                    ELSE [items[i] EXCEPT !.status = "error",
                                          !.file_size = Head(events).result]]
    /\ events' = Tail(events)
    /\ UNCHANGED <<next_id, queue_file, config_file, history, settings,
                   max_workers, pool_size, running, pending, workers,
                   active_downloads, pause_all_button, fetching, closed,
                   submitted, progressed,
                   hooks>>

OnDownloadFailed ==
    /\ Handling("failed")
    /\ LET e == Head(events)
           i == get_item(items, e.url)
       IN items' = IF i = 0 THEN items
                   ELSE [items EXCEPT ![i].status = "error",
                                      ![i].file_size = e.result]
    /\ events' = Tail(events)
    /\ UNCHANGED <<next_id, queue_file, config_file, history, settings,
                   max_workers, pool_size, running, pending, workers,
                   active_downloads, pause_all_button, fetching, closed,
                   submitted, progressed,
                   hooks>>

\* closeEvent: save the queue, stop_all, accept; the event loop ends, so the
\* signals still queued are never delivered
CloseEvent ==
    /\ UserCan
    /\ queue_file' = WrittenFile(save(items))
    /\ stop_all
    /\ closed' = TRUE
    /\ events' = <<>>
    /\ UNCHANGED <<items, next_id, config_file, history, settings,
                   max_workers, pool_size, pending, workers, active_downloads,
                   pause_all_button, fetching, submitted, progressed,
                   hooks>>

----------------------------------------------------------------------------
(* MainWindow.__init__, lines 50-73 *)

\* the window built over a settings file and a queue file
NewWindow(cfg, qf) ==
    [settings |-> from_file(cfg),
     workers_limit |-> from_file(cfg).max_concurrent_downloads,
     items |-> load(qf)]

Constructed(w) ==
    /\ settings = w.settings
    /\ max_workers = w.workers_limit
    /\ pool_size = w.workers_limit
    /\ items = w.items
    /\ next_id = Len(w.items) + 1
    /\ running = FALSE
    /\ pending = <<>>
    /\ workers = [s \in Slots |-> Idle]
    /\ hooks = [s \in Slots |-> NewHook]
    /\ active_downloads = {}
    /\ events = <<>>
    /\ pause_all_button = FALSE
    /\ fetching = NoBatch
    /\ closed = FALSE

\* the process exits once the pool has drained (the interpreter joins the
\* executor threads), and the application is started again
Restart ==
    /\ closed
    /\ pending = <<>>
    /\ Busy = {}
    /\ LET w == NewWindow(config_file, queue_file) IN
       /\ settings' = w.settings
       /\ max_workers' = w.workers_limit
       /\ pool_size' = w.workers_limit
       /\ items' = w.items
       /\ next_id' = Len(w.items) + 1
    /\ running' = FALSE
    /\ pending' = <<>>
    /\ workers' = [s \in Slots |-> Idle]
    /\ hooks' = [s \in Slots |-> NewHook]
    /\ active_downloads' = {}
    /\ events' = <<>>
    /\ pause_all_button' = FALSE
    /\ fetching' = NoBatch
    /\ closed' = FALSE
    /\ UNCHANGED <<queue_file, config_file, history, submitted, progressed>>

NoStop == [called |-> FALSE, queued |-> {}]

NoCrash == [phase |-> "none", url |-> ""]

\* the history variables are left alone
Keep == UNCHANGED <<stop_note, crash_note>>

\* first start: no queue file, no settings file, empty history
Init ==
    /\ queue_file = AbsentFile
    /\ config_file = AbsentConfig
    /\ history = <<>>
    /\ submitted = 0
    /\ progressed = 0
    /\ stop_note = NoStop
    /\ crash_note = NoCrash
    /\ Constructed(NewWindow(config_file, queue_file))

Next ==
    \/ \E lines \in Batches : AddUrls(lines) /\ Keep
    \/ \E canceled \in BOOLEAN : OnVideoInfoFetched(canceled) /\ Keep
    \/ BrowseFolder /\ Keep
    \/ StartDownloads /\ Keep
    \/ PauseAll /\ Keep
    \/ ClearCompleted /\ Keep
    \/ \E url \in Urls, yes \in BOOLEAN : RemoveDownload(url, yes) /\ Keep
    \/ \E i \in DOMAIN items : TogglePause(i) /\ Keep
    \/ \E url \in Urls : RetryDownload(url) /\ Keep
    \/ ShowSettings /\ Keep
    \/ Begin /\ Keep
    \/ \E s \in Slots : EmitProgress(s) /\ Keep
    \/ \E s \in Slots : Finish(s) /\ Keep
    \/ OnDownloadStarted /\ Keep
    \/ OnProgressUpdated /\ Keep
    \/ OnDownloadCompleted /\ Keep
    \/ OnDownloadFailed /\ Keep
    \/ CloseEvent /\ Keep
    \/ Restart /\ Keep

Spec == Init /\ [][Next]_vars

----------------------------------------------------------------------------
(* A session started over the files an earlier session left behind *)

\* a record of queue.json as save() writes it for a queued or a failed item
SavedDict(url, st) ==
    [to_dict(DownloadItem(0, url, TitleOf(url))) EXCEPT
        !.status = st,
        !.file_size = IF st = "error" THEN ErrorText ELSE ""]

SavedDicts == {SavedDict(url, st) : url \in Urls, st \in {"queued"}}

QueueFiles ==
    {WrittenFile(data) :
        data \in UNION {[1..n -> SavedDicts] : n \in {0, 1, 2}}}

\* config.json as found at startup: the file of a release whose settings
\* dialog saved it, or written by hand; the program itself never writes it
ConfigFiles ==
    {[exists |-> TRUE,
      data |-> [DefaultSettings EXCEPT !.max_concurrent_downloads = k,
                                       !.download_folder = "/videos"]] :
        k \in FileLimits \cup {DefaultMaxConcurrent}}

InitRun ==
    /\ queue_file \in QueueFiles
    /\ config_file \in ConfigFiles
    /\ history = <<>>
    /\ submitted = 0
    /\ progressed = 0
    /\ stop_note = NoStop
    /\ crash_note = NoCrash
    /\ Constructed(NewWindow(config_file, queue_file))

NextRun ==
    \/ StartDownloads /\ Keep
    \/ PauseAll /\ Keep
    \/ \E i \in DOMAIN items : TogglePause(i) /\ Keep
    \/ \E url \in Urls : RetryDownload(url) /\ Keep
    \/ Begin /\ Keep
    \/ \E s \in Slots : EmitProgress(s) /\ Keep
    \/ \E s \in Slots : Finish(s) /\ Keep
    \/ OnDownloadStarted /\ Keep
    \/ OnProgressUpdated /\ Keep
    \/ OnDownloadCompleted /\ Keep
    \/ OnDownloadFailed /\ Keep
    \/ CloseEvent /\ Keep

SpecRun == InitRun /\ [][NextRun]_vars

----------------------------------------------------------------------------
(* The same session with the Settings menu, and the restarts after it *)

NextLimit ==
    \/ StartDownloads /\ Keep
    \/ PauseAll /\ Keep
    \/ \E url \in Urls : RetryDownload(url) /\ Keep
    \/ ShowSettings /\ Keep
    \/ Begin /\ Keep
    \/ \E s \in Slots : Finish(s) /\ Keep
    \/ OnDownloadStarted /\ Keep
    \/ OnDownloadCompleted /\ Keep
    \/ OnDownloadFailed /\ Keep
    \/ CloseEvent /\ Keep
    \/ Restart /\ Keep

SpecLimit == InitRun /\ [][NextLimit]_vars

----------------------------------------------------------------------------
(* The same session, with the history variable kept *)

StopCalled == PauseAll \/ CloseEvent

QueuedIds(its) == {its[i].id : i \in {j \in DOMAIN its : its[j].status = "queued"}}

NoteStop ==
    /\ stop_note' =
          IF StopCalled THEN [called |-> TRUE, queued |-> QueuedIds(items')]
          ELSE IF DispatchAccepted(running) /\ running' THEN NoStop
          ELSE stop_note
    /\ UNCHANGED crash_note

NextStop ==
    \/ StartDownloads /\ NoteStop
    \/ PauseAll /\ NoteStop
    \/ \E i \in DOMAIN items : TogglePause(i) /\ NoteStop
    \/ \E url \in Urls : RetryDownload(url) /\ NoteStop
    \/ Begin /\ NoteStop
    \/ \E s \in Slots : EmitProgress(s) /\ NoteStop
    \/ \E s \in Slots : Finish(s) /\ NoteStop
    \/ OnDownloadStarted /\ NoteStop
    \/ OnProgressUpdated /\ NoteStop
    \/ OnDownloadCompleted /\ NoteStop
    \/ OnDownloadFailed /\ NoteStop
    \/ CloseEvent /\ NoteStop

SpecStop == InitRun /\ [][NextStop]_vars

----------------------------------------------------------------------------
(* The worker pool under fair scheduling: a transfer that was started
   returns, and the main thread's event loop handles the queued signals *)

NextFair ==
    \/ StartDownloads /\ Keep
    \/ PauseAll /\ Keep
    \/ Begin /\ Keep
    \/ \E s \in Slots : EmitProgress(s) /\ Keep
    \/ \E s \in Slots : Finish(s) /\ Keep
    \/ OnDownloadStarted /\ Keep
    \/ OnProgressUpdated /\ Keep
    \/ OnDownloadCompleted /\ Keep
    \/ OnDownloadFailed /\ Keep
    \/ CloseEvent /\ Keep

FairTask ==
    /\ InitRun
    /\ [][NextFair]_vars
    /\ WF_vars(Begin /\ Keep)
    /\ \A s \in Slots : WF_vars(Finish(s) /\ Keep)

----------------------------------------------------------------------------
(* Startup over a settings file that holds only some of the fields *)

\* values a settings file can hold, each one offered by the settings dialog
\* and different from the default
FileSettings ==
    [video_quality |-> "720p", preferred_format |-> "webm",
     audio_quality |-> "128k", download_subtitles |-> FALSE,
     subtitles_language |-> "pt", max_concurrent_downloads |-> 1,
     download_folder |-> "/videos"]

PartialConfigFiles ==
    {[exists |-> TRUE, data |-> [f \in S |-> FileSettings[f]]] :
        S \in SUBSET SettingsFields}

\* a settings file with a key that is no field of Settings
ForeignConfigFile ==
    [exists |-> TRUE,
     data |-> [f \in SettingsFields \cup {"cookies_file_path"} |->
                  IF f \in SettingsFields THEN FileSettings[f]
                  ELSE "/cookies.txt"]]

\* the values the program offers for each field (the combo boxes and the
\* spin box of the settings dialog); the download folder is any path
ValidValues(f) ==
    CASE f = "video_quality" -> {"best", "1080p", "720p", "480p", "audio"}
      [] f = "preferred_format" -> {"mp4", "webm", "mkv"}
      [] f = "audio_quality" -> {"best", "192k", "128k"}
      [] f = "download_subtitles" -> BOOLEAN
      [] f = "subtitles_language" ->
            {"en", "pt", "es", "fr", "de", "it", "ru", "ja", "ko", "zh"}
      [] f = "max_concurrent_downloads" -> SpinMin..SpinMax
      [] f = "download_folder" -> {"", "/videos"}

\* settings files in which one field carries a value the program does not
\* offer: a quality tier it does not know, a limit above the spin box maximum
InvalidConfigFiles ==
    {[exists |-> TRUE, data |-> [FileSettings EXCEPT !.video_quality = "4k"]],
     [exists |-> TRUE,
      data |-> [FileSettings EXCEPT !.max_concurrent_downloads = SpinMax + 1]]}

InitConfig ==
    /\ queue_file \in {AbsentFile} \cup QueueFiles
    /\ config_file \in PartialConfigFiles \cup InvalidConfigFiles
                          \cup {ForeignConfigFile, AbsentConfig}
    /\ history = <<>>
    /\ submitted = 0
    /\ progressed = 0
    /\ stop_note = NoStop
    /\ crash_note = NoCrash
    /\ Constructed(NewWindow(config_file, queue_file))

NextConfig ==
    \/ BrowseFolder /\ Keep
    \/ ShowSettings /\ Keep
    \/ CloseEvent /\ Keep
    \/ Restart /\ Keep

SpecConfig == InitConfig /\ [][NextConfig]_vars

----------------------------------------------------------------------------
(* Settings.save and Settings.from_file applied to the settings in force *)

\* dataclasses.asdict: the fields of the dataclass, and nothing else the
\* object may carry
asdict(s) == [f \in SettingsFields |-> s[f]]

\* Settings.save, lines 64-70: config.json holds asdict(self)
SaveSettings ==
    /\ ~closed
    /\ config_file' = [exists |-> TRUE, data |-> asdict(settings)]
    /\ UNCHANGED <<items, next_id, queue_file, history, settings, max_workers,
                   pool_size, running, pending, workers, active_downloads,
                   events, pause_all_button, fetching, closed, submitted,
                   progressed, hooks>>

NextSettings ==
    \/ BrowseFolder /\ Keep
    \/ SaveSettings /\ Keep
    \/ CloseEvent /\ Keep
    \/ Restart /\ Keep

SpecSettings == InitConfig /\ [][NextSettings]_vars

----------------------------------------------------------------------------
(* One transfer and the callbacks the download library can deliver to its
   progress hook *)

CallbackTags == {"downloading", "finished", "error"}

\* the dicts passed to progress_hook: the status tag, the byte counts (the
\* total, or only an estimate of it, or neither), and speed and eta, which
\* the library reports together or not at all
HookCallbacks ==
    {[status |-> tag, downloaded_bytes |-> dl, total_bytes |-> tot,
      total_bytes_estimate |-> est, speed |-> rate[1], eta |-> rate[2]] :
        tag \in CallbackTags,
        dl \in {Missing, 0, 250, 1000},
        tot \in {Missing, 0, 1000},
        est \in {Missing, 500},
        rate \in {<<Missing, Missing>>, <<1048576, 65>>}}

InitHook ==
    /\ queue_file = WrittenFile(<<SavedDict("youtu.be/a", "queued")>>)
    /\ config_file \in ConfigFiles
    /\ history = <<>>
    /\ submitted = 0
    /\ progressed = 0
    /\ stop_note = NoStop
    /\ crash_note = NoCrash
    /\ Constructed(NewWindow(config_file, queue_file))

NextHook ==
    \/ StartDownloads /\ Keep
    \/ Begin /\ Keep
    \/ \E s \in Slots, d \in HookCallbacks : Callback(s, d) /\ Keep
    \/ \E s \in Slots : Finish(s) /\ Keep
    \/ OnDownloadStarted /\ Keep
    \/ OnProgressUpdated /\ Keep
    \/ OnDownloadCompleted /\ Keep
    \/ OnDownloadFailed /\ Keep

SpecHook == InitHook /\ [][NextHook]_vars

----------------------------------------------------------------------------
(* One transfer observed over several callbacks *)

\* callbacks tagged downloading as the library delivers them for a transfer
\* whose size it does not know at first: the bytes downloaded so far, and
\* either the total or the estimate of it that the library recomputes from
\* the rate of the transfer
StreamCallbacks ==
    {[status |-> "downloading", downloaded_bytes |-> dl,
      total_bytes |-> size[1], total_bytes_estimate |-> size[2],
      speed |-> 1048576, eta |-> 65] :
        dl \in {250, 500, 1000},
        size \in {<<1000, Missing>>, <<Missing, 500>>, <<Missing, 1000>>}}

\* the next callback of the transfer: downloaded_bytes is cumulative
StreamCallback(s, d) ==
    /\ d.downloaded_bytes >= hooks[s].downloaded_bytes
    /\ CallbackWithin(s, d, MaxStream)

NextStream ==
    \/ StartDownloads /\ Keep
    \/ Begin /\ Keep
    \/ \E s \in Slots, d \in StreamCallbacks : StreamCallback(s, d) /\ Keep
    \/ \E s \in Slots : Finish(s) /\ Keep
    \/ OnDownloadStarted /\ Keep
    \/ OnProgressUpdated /\ Keep
    \/ OnDownloadCompleted /\ Keep
    \/ OnDownloadFailed /\ Keep

SpecStream == InitHook /\ [][NextStream]_vars

----------------------------------------------------------------------------
(* Sessions that end by a close or by the death of the process, and the
   restarts that follow *)

\* fault variant: a handler that saves the queue as soon as it has marked the
\* item completed, and dies before history.add_download
CrashInCompletedSaved ==
    /\ Handling("completed")
    /\ LET e == Head(events)
           i == get_item(items, e.url)
       IN /\ i # 0
          /\ items' = [items EXCEPT ![i].status = "completed",
                                    ![i].output_path = e.result,
                                    ![i].progress = 100]
          /\ crash_note' = [phase |-> "completed", url |-> e.url]
    /\ queue_file' = WrittenFile(save(items'))
    /\ ProcessDies
    /\ UNCHANGED history

\* on_download_completed runs lines 653-661 (the item is marked completed)
\* and the process dies before history.add_download, line 662
CrashInCompleted ==
    /\ Handling("completed")
    /\ LET e == Head(events)
           i == get_item(items, e.url)
       IN /\ i # 0
          /\ items' = [items EXCEPT ![i].status = "completed",
                                    ![i].output_path = e.result,
                                    ![i].progress = 100]
          /\ crash_note' = [phase |-> "completed", url |-> e.url]
    /\ ProcessDies
    /\ UNCHANGED <<queue_file, history>>

\* DownloadQueue.save, lines 86-87: the process dies inside the with block,
\* after open(..., 'w') has truncated queue.json and before json.dump has
\* written the whole text
CrashInSave ==
    /\ UserCan
    /\ queue_file' = TornFile
    /\ crash_note' = [phase |-> "save", url |-> ""]
    /\ ProcessDies
    /\ UNCHANGED <<items, history>>

\* the note of a crash lasts until the restart has been looked at: the
\* restart turns it into the note of a recovery, the next step drops it
Forget == crash_note' = NoCrash /\ UNCHANGED stop_note

Recover ==
    /\ crash_note' = IF crash_note.phase = "completed"
                     THEN [phase |-> "recovered", url |-> crash_note.url]
                     ELSE NoCrash
    /\ UNCHANGED stop_note

NextStore ==
    \/ StartDownloads /\ Forget
    \/ PauseAll /\ Forget
    \/ \E url \in Urls : RetryDownload(url) /\ Forget
    \/ Begin /\ Forget
    \/ \E s \in Slots : EmitProgress(s) /\ Forget
    \/ \E s \in Slots : Finish(s) /\ Forget
    \/ OnDownloadStarted /\ Forget
    \/ OnProgressUpdated /\ Forget
    \/ OnDownloadCompleted /\ Forget
    \/ OnDownloadFailed /\ Forget
    \/ CloseEvent /\ Forget
    \/ CrashInCompleted
    \/ CrashInSave
    \/ Restart /\ Recover

SpecStore == InitRun /\ [][NextStore]_vars

----------------------------------------------------------------------------
(* Reads and writes of the two files that fail *)

Exceptions == {"JSONDecodeError", "TypeError", "KeyError", "OSError"}

\* the exceptions each operation catches: DownloadQueue.load and
\* Settings.from_file name three, DownloadQueue.save catches Exception,
\* Settings.save has no try block
Caught(op) ==
    CASE op = "queue.load" -> {"JSONDecodeError", "TypeError", "KeyError"}
      [] op = "queue.save" -> Exceptions
      [] op = "settings.load" -> {"JSONDecodeError", "TypeError", "KeyError"}
      [] op = "settings.save" -> {}

\* what open() raises when the file cannot be opened or read (permission
\* denied, an I/O error, a directory in place of the file)
OpenError == "OSError"

\* the exception leaves the operation, and with it the slot or the
\* constructor that called it: the process ends with a traceback
Propagate ==
    /\ crash_note' = [phase |-> "raised", url |-> ""]
    /\ ProcessDies

\* the application is started and open() fails in Settings.from_file
\* (op = "settings.load", main_window.py:52) or in DownloadQueue.load
\* (op = "queue.load", main_window.py:69)
StartOverUnreadable(op) ==
    /\ closed
    /\ pending = <<>>
    /\ Busy = {}
    /\ IF op = "settings.load" THEN config_file.exists ELSE queue_file.exists
    /\ IF OpenError \in Caught(op)
       THEN /\ LET w == IF op = "settings.load"
                        THEN NewWindow(AbsentConfig, queue_file)
                        ELSE NewWindow(config_file, AbsentFile)
               IN /\ settings' = w.settings
                  /\ max_workers' = w.workers_limit
                  /\ pool_size' = w.workers_limit
                  /\ items' = w.items
                  /\ next_id' = Len(w.items) + 1
            /\ running' = FALSE
            /\ pending' = <<>>
            /\ workers' = [s \in Slots |-> Idle]
            /\ hooks' = [s \in Slots |-> NewHook]
            /\ active_downloads' = {}
            /\ events' = <<>>
            /\ pause_all_button' = FALSE
            /\ fetching' = NoBatch
            /\ closed' = FALSE
            /\ crash_note' = NoCrash
            /\ UNCHANGED <<submitted, progressed, stop_note>>
       ELSE /\ Propagate
            /\ UNCHANGED items
    /\ UNCHANGED <<queue_file, config_file, history>>

\* closeEvent whose download_queue.save() cannot open queue.json for
\* writing: the file stays as it was
CloseSaveFails ==
    /\ UserCan
    /\ IF OpenError \in Caught("queue.save")
       THEN /\ stop_all
            /\ closed' = TRUE
            /\ events' = <<>>
            /\ crash_note' = NoCrash
            /\ UNCHANGED <<next_id, settings, max_workers, pool_size, pending,
                           workers, active_downloads, pause_all_button,
                           fetching, submitted, progressed, hooks, stop_note>>
       ELSE Propagate
    /\ UNCHANGED <<items, queue_file, config_file, history>>

\* Settings.save that cannot open config.json for writing
SaveSettingsFails ==
    /\ ~closed
    /\ IF OpenError \in Caught("settings.save")
       THEN /\ crash_note' = NoCrash
            /\ UNCHANGED <<next_id, settings, max_workers, pool_size, running,
                           pending, workers, active_downloads, events,
                           pause_all_button, fetching, closed, submitted,
                           progressed, hooks, stop_note>>
       ELSE Propagate
    /\ UNCHANGED <<items, queue_file, config_file, history>>

NextFaults ==
    \/ StartDownloads /\ Forget
    \/ Begin /\ Forget
    \/ \E s \in Slots : Finish(s) /\ Forget
    \/ OnDownloadStarted /\ Forget
    \/ OnDownloadCompleted /\ Forget
    \/ OnDownloadFailed /\ Forget
    \/ CloseEvent /\ Forget
    \/ CrashInSave
    \/ Restart /\ Recover
    \/ \E op \in {"settings.load", "queue.load"} : StartOverUnreadable(op)
    \/ CloseSaveFails
    \/ SaveSettingsFails

SpecFaults == InitRun /\ [][NextFaults]_vars

----------------------------------------------------------------------------
(* Properties *)

\* the signals a step appends to the main thread's event queue
Appended ==
    IF Len(events') > Len(events)
    THEN SubSeq(events', Len(events) + 1, Len(events'))
    ELSE <<>>

\* the urls of the queued items of a list, in list order
QueuedUrls(its) ==
    LET q == SelectSeq(its, LAMBDA it : it.status = "queued")
    IN [k \in 1..Len(q) |-> q[k].url]

\* the submitted tasks of a url that have not finished: waiting in the work
\* queue or held by a pool thread
Unfinished(u, q, w) ==
    CountIn(u, q) + Cardinality({s \in Slots : w[s] # Idle /\ w[s].url = u})

C2_DispatchInOrder ==
    [][ /\ (StartDownloads /\ ~running /\ settings.download_folder # "")
              => pending' = pending \o QueuedUrls(items)
        /\ \A u \in Urls :
              (RetryDownload(u) /\ ~running) => pending' = pending \o <<u>>
        /\ Len(pending') < Len(pending)
              => /\ pending' = Tail(pending)
                 /\ \E s \in Slots :
                       /\ workers[s] = Idle
                       /\ workers'[s] # Idle
                       /\ workers'[s].url = Head(pending)
                       /\ \A t \in Slots \ {s} : workers'[t] = workers[t]
      ]_vars

\* two different tasks were submitted by one accepted dispatch; the first
\* is executing and the second is still waiting
C2_Witness ==
    /\ running
    /\ pending # <<>>
    /\ \E s \in Busy :
          /\ workers[s].url # Head(pending)
          /\ \E i, j \in DOMAIN items :
                /\ i < j
                /\ items[i].url = workers[s].url
                /\ items[j].url = Head(pending)

\* C3: a dispatch made while a run is active submits no task and leaves the
\* work queue, the pool threads, the active-download table and the running
\* flag unchanged.
C3_DispatchWhileRunningIsNoOp ==
    [][ (running /\ (StartDownloads \/ \E u \in Urls : RetryDownload(u)))
           => UNCHANGED <<pending, workers, active_downloads, running,
                          submitted>>
      ]_vars

\* the only task ever submitted has finished and its item, the only one,
\* is queued again while the run is still active: the item failed and its
\* retry called download_multiple, which returned at the guard
C3_Witness ==
    /\ running
    /\ ~closed
    /\ Len(items) = 1
    /\ items[1].status = "queued"
    /\ submitted = 1
    /\ pending = <<>>
    /\ Busy = {}
    /\ events = <<>>

\* C4: after stop_all() no item that was queued at the call goes to
\* downloading, also not one whose task was waiting in the work queue.
C4_QueuedStaysAfterStop ==
    [][ \A i \in DOMAIN items, j \in DOMAIN items' :
           (/\ items[i].id = items'[j].id
            /\ items[i].id \in stop_note.queued
            /\ stop_note.called
            /\ items[i].status = "queued")
              => items'[j].status # "downloading"
      ]_vars

\* C5 as stated: a call of stop_all(), made by closeEvent or by pause_all,
\* leaves the status of every downloading item unchanged.
C5_StopKeepsDownloading ==
    [][ StopCalled =>
           \A i \in DOMAIN items :
              items[i].status = "downloading"
                 => /\ i \in DOMAIN items'
                    /\ items'[i].status = "downloading"
      ]_vars

\* C5, amended: stop_all() itself alters no item (closeEvent, which calls
\* it directly, leaves every item as it is); pause_all, before it calls
\* stop_all(), sets exactly the downloading items to paused and leaves
\* every other item as it is.
C5_StopAltersNoItem ==
    [][ /\ CloseEvent => items' = items
        /\ PauseAll =>
              /\ Len(items') = Len(items)
              /\ \A i \in DOMAIN items :
                    items'[i] =
                       IF items[i].status = "downloading"
                       THEN [items[i] EXCEPT !.status = "paused"]
                       ELSE items[i]
      ]_vars

\* pause_all has run while a transfer was in flight: the run is stopped,
\* a downloading item was paused and a queued item is still queued
C5_Witness ==
    /\ ~running
    /\ ~closed
    /\ ~pause_all_button
    /\ Busy # {}
    /\ \E i, j \in DOMAIN items :
          /\ items[i].status = "paused"
          /\ items[j].status = "queued"

\* C6: after stop_all() the next call of download_multiple submits no task.
C6_NoSubmitAfterStop ==
    [][ (stop_note.called /\ (StartDownloads \/ \E u \in Urls : RetryDownload(u)))
           => pending' = pending
      ]_vars

\* the signals of one step of the pool, by what the step did to the threads
TaskSignals ==
    LET begun == {s \in Slots : workers[s] = Idle /\ workers'[s] # Idle}
        ended == {s \in Slots : workers[s] # Idle /\ workers'[s] = Idle}
    IN IF closed THEN Appended = <<>>
       ELSE /\ \A s \in begun :
                  Appended = <<Event("started", workers'[s].url, NoInfo, "")>>
            /\ \A s \in ended :
                  /\ Len(Appended) = 1
                  /\ Appended[1].type \in {"completed", "failed"}
                  /\ Appended[1].url = workers[s].url
            /\ (begun = {} /\ ended = {} /\ Appended # <<>>)
                  => /\ Len(Appended) = 1
                     /\ Appended[1].type = "progress"
                     /\ \E s \in Busy : workers[s].url = Appended[1].url

\* C7: a task emits download_started when it begins, then only
\* progress_updated while it runs, then exactly one of download_completed
\* and download_failed as it ends, and nothing after that; every task that
\* has begun ends, whether or not stop_all() is called meanwhile.
C7_TaskProtocol ==
    /\ [][TaskSignals]_vars
    /\ \A s \in Slots : (workers[s] # Idle) ~> (workers[s] = Idle)

\* the run was stopped by pause_all and the task of the paused item has
\* ended all the same: its terminal signal is the last one queued
C7_Witness ==
    /\ ~running
    /\ ~closed
    /\ Busy = {}
    /\ pending = <<>>
    /\ events # <<>>
    /\ events[Len(events)].type \in {"completed", "failed"}
    /\ \E i \in DOMAIN items :
          /\ items[i].status = "paused"
          /\ items[i].url = events[Len(events)].url

\* C8: no step submits a further task for a url that has an unfinished
\* task.
C8_NoSecondTaskForUrl ==
    [][ \A u \in Urls :
           Unfinished(u, pending, workers) >= 1
              => Unfinished(u, pending', workers')
                    <= Unfinished(u, pending, workers)
      ]_vars

\* C9: the queue holds at most one item per url.
C9_OneItemPerUrl ==
    \A i, j \in DOMAIN items : items[i].url = items[j].url => i = j

AllowedTransitions ==
    {<<"queued", "downloading">>, <<"downloading", "completed">>,
     <<"downloading", "error">>, <<"downloading", "paused">>,
     <<"paused", "queued">>, <<"error", "queued">>}

\* C10: within a session every status change of an item is one of
\* queued->downloading, downloading->completed, downloading->error,
\* downloading->paused, paused->queued, error->queued; in particular a
\* completed item never changes status.
C10_OnlyAllowedTransitions ==
    [][ (closed' = closed \/ closed') =>
           \A i \in DOMAIN items, j \in DOMAIN items' :
              (items[i].id = items'[j].id
                  /\ items[i].status # items'[j].status)
                 => <<items[i].status, items'[j].status>>
                       \in AllowedTransitions
      ]_vars

\* C11: no record of the queue file has status downloading.
C11_NoDownloadingInFile ==
    \A k \in DOMAIN queue_file.data :
       queue_file.data[k].status # "downloading"

\* C16: retry_download on an item in error sets it to queued with progress,
\* speed, eta, file_size and output_path at their defaults, url and title as
\* they were, and touches no other item; on an item that is not in error
\* it changes nothing.
C16_RetryResets ==
    [][ \A u \in Urls :
           RetryDownload(u) =>
              LET i == get_item(items, u) IN
              IF items[i].status = "error"
              THEN /\ Len(items') = Len(items)
                   /\ items'[i] =
                         [id |-> items[i].id, url |-> items[i].url,
                          title |-> items[i].title, status |-> "queued",
                          progress |-> 0, speed |-> "0.0 MB/s", eta |-> "",
                          file_size |-> "", output_path |-> ""]
                   /\ \A j \in DOMAIN items \ {i} : items'[j] = items[j]
              ELSE items' = items
      ]_vars

\* the only item received its progress signal and failed, and is queued
\* again with all its fields at the defaults: it was retried
C16_Witness ==
    /\ ~closed
    /\ Len(items) = 1
    /\ progressed = 1
    /\ events = <<>>
    /\ items[1] = DownloadItem(1, items[1].url, items[1].title)

\* C17: handling a download_completed signal adds exactly one record to the
\* history, for the url of the signal and with status completed.
C17_CompletedIsRecorded ==
    [][ OnDownloadCompleted =>
           /\ Len(history') = Len(history) + 1
           /\ history'[Len(history')].url = Head(events).url
           /\ history'[Len(history')].status = "completed"
      ]_vars

\* the settings in force are those of the settings file: each field the
\* file holds has the file's value, each field it lacks has the default
LoadedFromFile ==
    \A f \in SettingsFields :
       settings[f] = IF f \in DOMAIN config_file.data
                     THEN config_file.data[f]
                     ELSE DefaultSettings[f]

\* C20: starting over a settings file that holds any subset of the fields
\* yields the default for exactly the fields the file lacks and the file's
\* value for every field it holds.
C20_MissingFieldsDefaulted ==
    /\ (config_file.exists /\ DOMAIN config_file.data \subseteq SettingsFields)
          => LoadedFromFile
    /\ [][ (Restart /\ config_file.exists
                    /\ DOMAIN config_file.data \subseteq SettingsFields)
              => LoadedFromFile'
         ]_vars

\* the window was built over a file that holds video_quality and lacks
\* preferred_format: the former has the file's value, the latter the default
C20_Witness ==
    /\ ~closed
    /\ config_file.exists
    /\ "video_quality" \in DOMAIN config_file.data
    /\ "preferred_format" \notin DOMAIN config_file.data
    /\ settings.video_quality = "720p"
    /\ settings.preferred_format = "mp4"

\* the byte counts a callback carries: a missing count is none, and the
\* total is the estimate when the dict holds no total
CarriedDownloaded(d) ==
    IF d.downloaded_bytes > 0 THEN d.downloaded_bytes ELSE 0

CarriedTotal(d) ==
    IF d.total_bytes > 0 THEN d.total_bytes
    ELSE IF d.total_bytes_estimate > 0 THEN d.total_bytes_estimate ELSE 0

\* C18: the progress emitted for a callback tagged downloading is
\* downloaded/total*100 when the total is positive and 0 otherwise, speed
\* and eta are the callback's numbers, 0 when it has none; with total 1000
\* the counts 0, 250 and 1000 give 0, 25 and 100.
C18_ProgressIsPercentage ==
    [][ \A s \in Slots, d \in HookCallbacks :
           (Callback(s, d) /\ d.status = "downloading" /\ ~closed) =>
              LET info == events'[Len(events')].info
                  dl == CarriedDownloaded(d)
                  tot == CarriedTotal(d)
              IN /\ tot > 0 => info.progress * tot = dl * 100
                 /\ tot = 0 => info.progress = 0
                 /\ info.speed = (IF d.speed > 0 THEN d.speed ELSE 0)
                 /\ info.eta = (IF d.eta > 0 THEN d.eta ELSE 0)
                 /\ (d.total_bytes = 1000 /\ dl = 0) => info.progress = 0
                 /\ (d.total_bytes = 1000 /\ dl = 250) => info.progress = 25
                 /\ (d.total_bytes = 1000 /\ dl = 1000) => info.progress = 100
      ]_vars

\* the hook has counted 250 of 1000 bytes and its signal, carrying 25, is the
\* last one queued
C18_Witness ==
    /\ events # <<>>
    /\ events[Len(events)].type = "progress"
    /\ events[Len(events)].info.progress = 25
    /\ \E s \in Busy : hooks[s] = [downloaded_bytes |-> 250, total_bytes |-> 1000]

\* C19: a callback emits a progress signal exactly when its tag is
\* downloading; a callback with another tag emits nothing and leaves the
\* counters of the hook and every item as they are.
C19_OnlyDownloadingEmits ==
    [][ \A s \in Slots, d \in HookCallbacks :
           (Callback(s, d) /\ ~closed) =>
              IF d.status = "downloading"
              THEN /\ Len(events') = Len(events) + 1
                   /\ SubSeq(events', 1, Len(events)) = events
                   /\ events'[Len(events')].type = "progress"
                   /\ events'[Len(events')].url = workers[s].url
              ELSE /\ events' = events
                   /\ hooks' = hooks
                   /\ items' = items
      ]_vars

\* a callback was delivered after the task began, and the only signal
\* queued is still download_started: the callback emitted nothing, and the
\* counters of the hook are untouched
C19_Witness ==
    /\ ~closed
    /\ progressed = 1
    /\ Len(events) = 1
    /\ events[1].type = "started"
    /\ \E s \in Busy : hooks[s] = NewHook
    /\ \A i \in DOMAIN items : items[i].progress = 0

UrlTitleStatus(item) ==
    [url |-> item.url, title |-> item.title, status |-> item.status]

ResetOnLoad(st) == IF st \in {"queued", "error"} THEN st ELSE "queued"

\* the queue file is the snapshot of the items in memory, and the
\* application starts again over it
SavedThenLoaded == Restart /\ queue_file = WrittenFile(save(items))

\* C12 as stated: save() followed by load() yields, in order, every item
\* that was not completed with the same url, title and status, and no
\* completed item.
C12_RoundTripExact ==
    [][ SavedThenLoaded =>
           SeqMap(UrlTitleStatus, items') =
              SeqMap(UrlTitleStatus, SelectSeq(items, NotCompleted)) ]_vars

\* C12, amended: save() followed by load() yields, in order, every item that
\* was not completed, with the same url and title, with the same status if
\* that was queued or error and with status queued if it was downloading or
\* paused, and no completed item.
C12_RoundTrip ==
    [][ SavedThenLoaded =>
           LET kept == SelectSeq(items, NotCompleted) IN
           /\ Len(items') = Len(kept)
           /\ \A i \in DOMAIN kept :
                 /\ items'[i].url = kept[i].url
                 /\ items'[i].title = kept[i].title
                 /\ items'[i].status = ResetOnLoad(kept[i].status)
           /\ \A i \in DOMAIN items' : items'[i].status # "completed" ]_vars

\* a session that recorded a completed download was saved and loaded: the
\* loaded queue holds the other item, and not the completed one
C12_Witness ==
    /\ ~closed
    /\ history # <<>>
    /\ Len(items) = 1
    /\ items[1].url # history[1].url
    /\ items = load(queue_file)
    /\ queue_file.whole

\* C13: load() turns a persisted status downloading or paused into queued
\* and leaves every other field of the item as persisted; an item persisted
\* as queued or error is loaded with every field as persisted.
C13_LoadResetsActive ==
    [][ (Restart /\ queue_file.exists /\ queue_file.whole) =>
           /\ Len(items') = Len(queue_file.data)
           /\ \A i \in DOMAIN queue_file.data :
                 LET d == queue_file.data[i] IN
                 to_dict(items'[i]) =
                    IF d.status \in {"downloading", "paused"}
                    THEN [d EXCEPT !.status = "queued"]
                    ELSE d ]_vars

\* a file holding a paused item with progress behind it has been loaded: the
\* item is queued and its other fields are those of the file
C13_Witness ==
    /\ ~closed
    /\ crash_note = NoCrash
    /\ \E i \in DOMAIN items :
          /\ i \in DOMAIN queue_file.data
          /\ queue_file.data[i].status = "paused"
          /\ queue_file.data[i].progress > 0
          /\ to_dict(items[i]) = [queue_file.data[i] EXCEPT !.status = "queued"]

C15_SaveIsAtomic == queue_file.exists => queue_file.whole

\* the settings in force degrade per field: a field the file holds with a
\* value the program offers has that value, every other field its default
DegradedPerField ==
    \A f \in SettingsFields :
       settings[f] = IF /\ f \in DOMAIN config_file.data
                        /\ config_file.data[f] \in ValidValues(f)
                     THEN config_file.data[f]
                     ELSE DefaultSettings[f]

\* C21: starting over a settings file in which one field is invalid, or
\* which holds a key that is no settings field, replaces only that entry by
\* its default (or ignores it) and keeps the file's value of every other
\* valid field.
C21_DegradesPerField ==
    /\ config_file.exists => DegradedPerField
    /\ [][ (Restart /\ config_file.exists) => DegradedPerField' ]_vars

\* C23: the max_concurrent_downloads in force, and with it the size asked of
\* the worker pool, lies in 1..10 in every reachable state.
C23_LimitInRange ==
    /\ settings.max_concurrent_downloads \in SpinMin..SpinMax
    /\ pool_size \in SpinMin..SpinMax

\* the settings fields the specification lists: the seven of the dataclass
\* and the cookie-file path of the settings dialog
ListedFields == SettingsFields \cup {"cookies_file_path"}

\* C22: saving the settings and loading them again yields the same value
\* for every listed field, the cookie-file path included.
C22_SettingsRoundTrip ==
    [][ (Restart /\ config_file = [exists |-> TRUE, data |-> asdict(settings)])
           => \A f \in ListedFields :
                 /\ f \in DOMAIN settings
                 /\ f \in DOMAIN settings'
                 /\ settings'[f] = settings[f] ]_vars

\* the part of C22 that holds: the seven fields of the dataclass come back
\* as they were saved
C22_DataclassFieldsRoundTrip ==
    [][ (Restart /\ config_file = [exists |-> TRUE, data |-> asdict(settings)])
           => \A f \in SettingsFields : settings'[f] = settings[f] ]_vars

\* C24: no failure to read or write queue.json or config.json leaves load
\* or save as an exception; a failed load leaves the empty queue or the
\* default settings, a failed save leaves the store in memory as it was.
C24_FailuresAreSwallowed ==
    [][ /\ crash_note'.phase # "raised"
        /\ StartOverUnreadable("queue.load") => (~closed' /\ items' = <<>>)
        /\ StartOverUnreadable("settings.load") =>
              (~closed' /\ settings' = DefaultSettings)
        /\ (CloseSaveFails \/ SaveSettingsFails) =>
              (items' = items /\ settings' = settings) ]_vars

\* the part of C24 that holds: a queue save that fails is swallowed and
\* leaves the items as they were, and a queue file that is not a JSON
\* document loads as the empty queue
C24_QueueSaveSwallowed ==
    [][ /\ CloseSaveFails =>
              (crash_note'.phase # "raised" /\ items' = items /\ closed')
        /\ (Restart /\ queue_file = TornFile) => items' = <<>> ]_vars

\* C25: every item whose output_path is not empty has status completed.
C25_OutputPathOnlyWhenCompleted ==
    \A i \in DOMAIN items :
       items[i].output_path # "" => items[i].status = "completed"

\* C26: while an item is downloading, handling a progress event never
\* lowers its progress.
C26_ProgressNeverDecreases ==
    [][ OnProgressUpdated =>
           \A i \in DOMAIN items :
              (items[i].status = "downloading" /\ items'[i].status = "downloading")
                 => items'[i].progress >= items[i].progress ]_vars

\* C27: remove(url) returns True exactly when an item with that URL was in
\* the queue, and the items with other URLs stay, in their order.
C27_RemoveReportsRemoval ==
    [][ \A url \in Urls :
           RemoveDownload(url, TRUE) =>
              /\ remove_returns(items, url) <=>
                    (\E i \in DOMAIN items : items[i].url = url)
              /\ \A i \in DOMAIN items' : items'[i].url # url
              /\ \E f \in [DOMAIN items' -> DOMAIN items] :
                    /\ \A i \in DOMAIN items' : items'[i] = items[f[i]]
                    /\ \A i, j \in DOMAIN items' : i < j => f[i] < f[j]
              /\ Len(items') = Cardinality({i \in DOMAIN items : items[i].url # url})
      ]_vars

\* the part of C27 that holds: the items with other URLs stay, in order
C27_OthersStayInOrder ==
    [][ \A url \in Urls :
           RemoveDownload(url, TRUE) =>
              /\ \A i \in DOMAIN items' : items'[i].url # url
              /\ \E f \in [DOMAIN items' -> DOMAIN items] :
                    /\ \A i \in DOMAIN items' : items'[i] = items[f[i]]
                    /\ \A i, j \in DOMAIN items' : i < j => f[i] < f[j]
              /\ Len(items') = Cardinality({i \in DOMAIN items : items[i].url # url})
      ]_vars

\* C28: retry_download on an item in error submits a task for that item to
\* the worker pool, in every state in which Retry can be pressed.
C28_RetrySubmitsTask ==
    [][ \A url \in Urls :
           ( /\ RetryDownload(url)
             /\ get_item(items, url) # 0
             /\ items[get_item(items, url)].status = "error" )
           => pending' = Append(pending, url) ]_vars

\* C29: a dispatch made when no submitted task is waiting or executing and
\* every signal of the tasks has been handled, the run not having been
\* stopped, is accepted: it submits a task for every queued item.
C29_DispatchAfterFinishedRun ==
    [][ ( /\ StartDownloads
          /\ ~stop_note.called
          /\ pending = <<>>
          /\ Busy = {}
          /\ events = <<>>
          /\ settings.download_folder # ""
          /\ get_queued_items(items) # <<>> )
        => pending' = TasksFor(get_queued_items(items)) ]_vars

\* a task has failed and its signal waits for the main thread
FailedSignalQueued == \E k \in DOMAIN events : events[k].type = "failed"

====
